---- MODULE Spec2Model ----
\* A model of webgl.js: the icosphere tessellation (generateIcosahedron,
\* subdivideTriangle, generateSphere), the camera (updateCameraPosition), the UI
\* event handlers and the render loop.
\*
\* Numbers.  The program computes in IEEE doubles; the model computes in fixed
\* point.  Vertex and normal components are integers in units of 1/GeomScale,
\* matrix entries in units of 1/MatScale, angles in units of 1/AngleScale rad.
\* The two number systems never meet in the script (vertex data goes to the
\* buffers, matrices go to the uniforms; only the shaders combine them).
\* Division rounds toward minus infinity, Math.sqrt is the integer square root.
EXTENDS Integers, Sequences, FiniteSets, TLC

\* ------------------------------------------------------------------ bounds
\* Frames executed in one behaviour (the script's own call of render included).
MaxFrames == 3

\* UI events handled in one behaviour.
MaxEvents == 2

\* generateSphere calls made in one behaviour of the generation specification.
MaxCalls == 2

\* ------------------------------------------------------- program constants
\* The subdivision slider's range (index.html: min="1" max="5").
MinLevel == 1
MaxLevel == 5

\* generateSphere(3) builds the initial mesh (webgl.js 239).
InitialLevel == 3

\* ------------------------------------------------------------ fixed point
GeomScale == 100 * 100

\* JS arrays are 0-based.
At(arr, k) == arr[k + 1]

\* Math.sqrt on the fixed-point grid: the integer square root, by Newton's
\* iteration from a start that is not below the root.
RECURSIVE SqrtIter(_, _)
SqrtIter(n, x) ==
    LET y == (x + (n \div x)) \div 2
    IN IF y >= x THEN x ELSE SqrtIter(n, y)

Sqrt(n, unit) == IF n <= 0 THEN 0 ELSE SqrtIter(n, ((n \div unit) + unit) \div 2 + 1)

\* ------------------------------------------------------------- geometry
\* normalize(v): v divided by its length (webgl.js 150-153).  Squares of
\* components carry GeomScale^2, so the root carries GeomScale.
normalize(v) ==
    LET length == Sqrt(v[1] * v[1] + v[2] * v[2] + v[3] * v[3], GeomScale)
    IN << (v[1] * GeomScale) \div length,
          (v[2] * GeomScale) \div length,
          (v[3] * GeomScale) \div length >>

\* The constants of generateIcosahedron, in units of 1/GeomScale.
X == 5257
Z == 8507
N == 0

IcosaVertices ==
    << -X, N, Z,   X, N, Z,   -X, N, -Z,   X, N, -Z,
       N, Z, X,    N, Z, -X,  N, -Z, X,    N, -Z, -X,
       Z, X, N,    -Z, X, N,  Z, -X, N,    -Z, -X, N >>

IcosaIndices ==
    << 1,4,0,   4,9,0,   4,5,9,   8,5,4,   1,8,4,
       1,10,8,  10,3,8,  8,3,5,   3,2,5,   3,7,2,
       3,10,7,  10,6,7,  6,11,7,  6,0,11,  6,1,0,
       10,1,6,  11,0,9,  2,11,9,  5,2,9,   11,2,7 >>

\* The vertex the loop of generateSphere reads for index slot j (216-230).
IcosaVertex(j) ==
    << At(IcosaVertices, At(IcosaIndices, j) * 3),
       At(IcosaVertices, At(IcosaIndices, j) * 3 + 1),
       At(IcosaVertices, At(IcosaIndices, j) * 3 + 2) >>

\* A product of two fixed-point numbers, back on the grid.
GMul(a, b) == (a * b) \div GeomScale

\* The face normal of a leaf (186-190): normalize((v2 - v1) x (v3 - v1)).
FaceNormalFlipped(v1, v2, v3) ==
    normalize(<<
        GMul(v3[2] - v1[2], v2[3] - v1[3]) - GMul(v3[3] - v1[3], v2[2] - v1[2]),
        GMul(v3[3] - v1[3], v2[1] - v1[1]) - GMul(v3[1] - v1[1], v2[3] - v1[3]),
        GMul(v3[1] - v1[1], v2[2] - v1[2]) - GMul(v3[2] - v1[2], v2[1] - v1[1]) >>)

FaceNormal(v1, v2, v3) ==
    normalize(<<
        GMul(v2[2] - v1[2], v3[3] - v1[3]) - GMul(v2[3] - v1[3], v3[2] - v1[2]),
        GMul(v2[3] - v1[3], v3[1] - v1[1]) - GMul(v2[1] - v1[1], v3[3] - v1[3]),
        GMul(v2[1] - v1[1], v3[2] - v1[2]) - GMul(v2[2] - v1[2], v3[1] - v1[1]) >>)

\* The re-normalized midpoint of an edge (196-198).
Midpoint(a, b) ==
    normalize(<< (a[1] + b[1]) \div 2, (a[2] + b[2]) \div 2, (a[3] + b[3]) \div 2 >>)

\* The four recursive calls of subdivideTriangle, in call order (201-204).
ChildrenReordered(v1, v2, v3) ==
    LET v12 == Midpoint(v1, v2)
        v23 == Midpoint(v2, v3)
        v31 == Midpoint(v3, v1)
    IN << <<v1, v12, v31>>, <<v3, v31, v23>>, <<v2, v23, v12>>, <<v12, v23, v31>> >>

Children(v1, v2, v3) ==
    LET v12 == Midpoint(v1, v2)
        v23 == Midpoint(v2, v3)
        v31 == Midpoint(v3, v1)
    IN << <<v1, v12, v31>>, <<v2, v23, v12>>, <<v3, v31, v23>>, <<v12, v23, v31>> >>

\* What one leaf pushes onto the two global arrays (182-192).
Leaf(v1, v2, v3) ==
    LET normal == FaceNormal(v1, v2, v3)
    IN [vertices |-> v1 \o v2 \o v3, normals |-> normal \o normal \o normal]

\* subdivideTriangle(v1, v2, v3, depth): the floats the call pushes onto
\* vertices and onto normals, in push order.
RECURSIVE subdivideTriangle(_, _, _, _)
subdivideTriangle(v1, v2, v3, depth) ==
    IF depth = 0
    THEN Leaf(v1, v2, v3)
    ELSE LET ch == Children(v1, v2, v3)
             a == subdivideTriangle(ch[1][1], ch[1][2], ch[1][3], depth - 1)
             b == subdivideTriangle(ch[2][1], ch[2][2], ch[2][3], depth - 1)
             c == subdivideTriangle(ch[3][1], ch[3][2], ch[3][3], depth - 1)
             d == subdivideTriangle(ch[4][1], ch[4][2], ch[4][3], depth - 1)
         IN [vertices |-> a.vertices \o b.vertices \o c.vertices \o d.vertices,
             normals |-> a.normals \o b.normals \o c.normals \o d.normals]

\* What one iteration of the loop of generateSphere (215-233) pushes.
Pushed(i, subdivisionLevel) ==
    subdivideTriangle(IcosaVertex(i), IcosaVertex(i + 1), IcosaVertex(i + 2),
                      subdivisionLevel)

\* One iteration of the loop of generateSphere (215-233) on the arrays.
SeedStep(mesh, i, subdivisionLevel) ==
    [vertices |-> mesh.vertices \o Pushed(i, subdivisionLevel).vertices,
     normals |-> mesh.normals \o Pushed(i, subdivisionLevel).normals]

\* The arrays as generateSphere leaves them at its start (209-210).
ClearedArrayKept(old) == old

ClearedArray(old) == <<>>

\* new Float32Array(arr) (235): every element rounded to single precision.  A
\* component is at most a few units in absolute value and sits on a grid of
\* 1/GeomScale, far coarser than the 24-bit significand, so the rounding keeps
\* every grid value; the array is a fresh copy of the same length.
Float32Array(arr) == SubSeq(arr, 1, Len(arr))

\* The loop condition of generateSphere (215).
LoopContinuesShort(i) == i < Len(IcosaIndices) - 3

LoopContinues(i) == i < Len(IcosaIndices)

\* The loop of generateSphere from iteration i on (215-233), followed on one
\* of the two global arrays: arr is that array before iteration i, field its
\* name.
RECURSIVE GenLoop(_, _, _, _)
GenLoop(arr, field, i, subdivisionLevel) ==
    IF LoopContinues(i)
    THEN GenLoop(arr \o Pushed(i, subdivisionLevel)[field], field, i + 3, subdivisionLevel)
    ELSE arr

\* generateSphere(subdivisionLevel) run to completion on the globals oldV, oldN:
\* the globals it leaves and the object it returns (208-236).
generateSphere(oldV, oldN, subdivisionLevel) ==
    [vertices |-> GenLoop(ClearedArray(oldV), "vertices", 0, subdivisionLevel),
     normals |-> GenLoop(ClearedArray(oldN), "normals", 0, subdivisionLevel),
     sphereData |->
        [vertices |-> Float32Array(GenLoop(ClearedArray(oldV), "vertices", 0,
                                           subdivisionLevel)),
         normals |-> Float32Array(GenLoop(ClearedArray(oldN), "normals", 0,
                                          subdivisionLevel))]]

\* ------------------------------------------------------------- matrices
\* gl-matrix mat4 values: 16 entries, column-major, in units of 1/MatScale.
MatScale == 10 * 100

\* Angles in units of 1/AngleScale rad.
AngleScale == 100 * 100

\* Math.PI / 2, the initial phi (128).
HalfPi == 15708

\* rotationAngle += 0.01 (351).
RotationStep == 100

\* Math.sin and Math.cos, rounded to the grid, at the angles the model uses:
\* <<angle, sin, cos>>.
TrigTable ==
    { <<0, 0, 1000>>,
      <<100, 10, 1000>>, <<200, 20, 1000>>, <<300, 30, 1000>>, <<400, 40, 999>>,
      <<500, 50, 999>>, <<600, 60, 998>>, <<700, 70, 998>>, <<800, 80, 997>>,
      <<15700, 1000, 1>>, <<HalfPi, 1000, 0>>, <<31400, 2, -1000>>,
      <<47100, -1000, -2>>, <<62800, -3, 1000>> }

Sin(a) == (CHOOSE row \in TrigTable : row[1] = a)[2]
Cos(a) == (CHOOSE row \in TrigTable : row[1] = a)[3]

\* mat4.create(): the identity.
Identity ==
    << MatScale, 0, 0, 0,   0, MatScale, 0, 0,   0, 0, MatScale, 0,   0, 0, 0, MatScale >>

\* mat4.perspective(out, 45 deg, 800 / 800, 0.1, 100.0) (137-142).
projectionMatrix ==
    << 2414, 0, 0, 0,   0, 2414, 0, 0,   0, 0, -1002, -1000,   0, 0, -200, 0 >>

MMul(a, b) == (a * b) \div MatScale

\* mat4.multiply(out, a, b): out = a * b.
multiply(a, b) ==
    [k \in 1..16 |->
        LET col == (k - 1) \div 4
            row == (k - 1) % 4
        IN (At(a, row) * At(b, 4 * col) + At(a, 4 + row) * At(b, 4 * col + 1)
            + At(a, 8 + row) * At(b, 4 * col + 2) + At(a, 12 + row) * At(b, 4 * col + 3))
           \div MatScale]

\* mat4.rotateY(out, a, rad).
rotateY(a, rad) ==
    LET s == Sin(rad)
        c == Cos(rad)
    IN << MMul(At(a, 0), c) - MMul(At(a, 8), s),
          MMul(At(a, 1), c) - MMul(At(a, 9), s),
          MMul(At(a, 2), c) - MMul(At(a, 10), s),
          MMul(At(a, 3), c) - MMul(At(a, 11), s),
          At(a, 4), At(a, 5), At(a, 6), At(a, 7),
          MMul(At(a, 0), s) + MMul(At(a, 8), c),
          MMul(At(a, 1), s) + MMul(At(a, 9), c),
          MMul(At(a, 2), s) + MMul(At(a, 10), c),
          MMul(At(a, 3), s) + MMul(At(a, 11), c),
          At(a, 12), At(a, 13), At(a, 14), At(a, 15) >>

\* mat4.transpose(out, a).
transpose(a) == [k \in 1..16 |-> At(a, 4 * ((k - 1) % 4) + ((k - 1) \div 4))]

\* The twelve 2x2 minors mat4.invert computes first, b00..b11.
Minors(a) ==
    << MMul(At(a, 0), At(a, 5)) - MMul(At(a, 1), At(a, 4)),
       MMul(At(a, 0), At(a, 6)) - MMul(At(a, 2), At(a, 4)),
       MMul(At(a, 0), At(a, 7)) - MMul(At(a, 3), At(a, 4)),
       MMul(At(a, 1), At(a, 6)) - MMul(At(a, 2), At(a, 5)),
       MMul(At(a, 1), At(a, 7)) - MMul(At(a, 3), At(a, 5)),
       MMul(At(a, 2), At(a, 7)) - MMul(At(a, 3), At(a, 6)),
       MMul(At(a, 8), At(a, 13)) - MMul(At(a, 9), At(a, 12)),
       MMul(At(a, 8), At(a, 14)) - MMul(At(a, 10), At(a, 12)),
       MMul(At(a, 8), At(a, 15)) - MMul(At(a, 11), At(a, 12)),
       MMul(At(a, 9), At(a, 14)) - MMul(At(a, 10), At(a, 13)),
       MMul(At(a, 9), At(a, 15)) - MMul(At(a, 11), At(a, 13)),
       MMul(At(a, 10), At(a, 15)) - MMul(At(a, 11), At(a, 14)) >>

\* The determinant mat4.invert tests.
Det(a) ==
    LET b == Minors(a)
    IN (At(b, 0) * At(b, 11) - At(b, 1) * At(b, 10) + At(b, 2) * At(b, 9)
        + At(b, 3) * At(b, 8) - At(b, 4) * At(b, 7) + At(b, 5) * At(b, 6)) \div MatScale

\* mat4.invert(out, a): returns null and leaves out as it was when the
\* determinant is 0; the script ignores the returned value.
invert(out, a) ==
    LET b == Minors(a)
        det == Det(a)
    IN IF det = 0
       THEN out
       ELSE << (At(a, 5) * At(b, 11) - At(a, 6) * At(b, 10) + At(a, 7) * At(b, 9)) \div det,
               (At(a, 2) * At(b, 10) - At(a, 1) * At(b, 11) - At(a, 3) * At(b, 9)) \div det,
               (At(a, 13) * At(b, 5) - At(a, 14) * At(b, 4) + At(a, 15) * At(b, 3)) \div det,
               (At(a, 10) * At(b, 4) - At(a, 9) * At(b, 5) - At(a, 11) * At(b, 3)) \div det,
               (At(a, 6) * At(b, 8) - At(a, 4) * At(b, 11) - At(a, 7) * At(b, 7)) \div det,
               (At(a, 0) * At(b, 11) - At(a, 2) * At(b, 8) + At(a, 3) * At(b, 7)) \div det,
               (At(a, 14) * At(b, 2) - At(a, 12) * At(b, 5) - At(a, 15) * At(b, 1)) \div det,
               (At(a, 8) * At(b, 5) - At(a, 10) * At(b, 2) + At(a, 11) * At(b, 1)) \div det,
               (At(a, 4) * At(b, 10) - At(a, 5) * At(b, 8) + At(a, 7) * At(b, 6)) \div det,
               (At(a, 1) * At(b, 8) - At(a, 0) * At(b, 10) - At(a, 3) * At(b, 6)) \div det,
               (At(a, 12) * At(b, 4) - At(a, 13) * At(b, 2) + At(a, 15) * At(b, 0)) \div det,
               (At(a, 9) * At(b, 2) - At(a, 8) * At(b, 4) - At(a, 11) * At(b, 0)) \div det,
               (At(a, 5) * At(b, 7) - At(a, 4) * At(b, 9) - At(a, 6) * At(b, 6)) \div det,
               (At(a, 0) * At(b, 9) - At(a, 1) * At(b, 7) + At(a, 2) * At(b, 6)) \div det,
               (At(a, 13) * At(b, 1) - At(a, 12) * At(b, 3) - At(a, 14) * At(b, 0)) \div det,
               (At(a, 8) * At(b, 3) - At(a, 9) * At(b, 1) + At(a, 10) * At(b, 0)) \div det >>

\* A 3-vector scaled to unit length, or the zero vector when its length is 0
\* (the "if (!len)" branches of mat4.lookAt).
UnitOrZero(v) ==
    LET len == Sqrt(v[1] * v[1] + v[2] * v[2] + v[3] * v[3], MatScale)
    IN IF len = 0
       THEN <<0, 0, 0>>
       ELSE << (v[1] * MatScale) \div len, (v[2] * MatScale) \div len,
               (v[3] * MatScale) \div len >>

Dot3(u, v) == MMul(u[1], v[1]) + MMul(u[2], v[2]) + MMul(u[3], v[3])

\* mat4.lookAt(out, eye, [0, 0, 0], up).  An eye within EPSILON of the centre
\* gives the identity; otherwise z = normalize(eye - centre), x = up x z and
\* y = z x x, each normalized or zeroed.
lookAt(eye, up) ==
    IF eye = <<0, 0, 0>>
    THEN Identity
    ELSE LET z == UnitOrZero(eye)
             x == UnitOrZero(<< MMul(up[2], z[3]) - MMul(up[3], z[2]),
                                MMul(up[3], z[1]) - MMul(up[1], z[3]),
                                MMul(up[1], z[2]) - MMul(up[2], z[1]) >>)
             y == UnitOrZero(<< MMul(z[2], x[3]) - MMul(z[3], x[2]),
                                MMul(z[3], x[1]) - MMul(z[1], x[3]),
                                MMul(z[1], x[2]) - MMul(z[2], x[1]) >>)
         IN << x[1], y[1], z[1], 0,
               x[2], y[2], z[2], 0,
               x[3], y[3], z[3], 0,
               -Dot3(x, eye), -Dot3(y, eye), -Dot3(z, eye), MatScale >>

\* The up vector handed to mat4.lookAt (276).
Up == <<0, MatScale, 0>>

\* The eye of updateCameraPosition (266-270).
EyeYUp(r, th, ph) ==
    << MMul(MMul(r, Sin(ph)), Cos(th)),
       MMul(r, Cos(ph)),
       MMul(MMul(r, Sin(ph)), Sin(th)) >>

Eye(r, th, ph) ==
    << MMul(MMul(r, Sin(ph)), Cos(th)),
       MMul(MMul(r, Sin(ph)), Sin(th)),
       MMul(r, Cos(ph)) >>

\* updateCameraPosition() (265-282) on the globals it reads: the modelViewMatrix
\* and normalMatrix it leaves.
updateCameraPosition(r, th, ph, oldNormal) ==
    LET mv == lookAt(Eye(r, th, ph), Up)
    IN [modelViewMatrix |-> mv, normalMatrix |-> transpose(invert(oldNormal, mv))]

\* ------------------------------------------------------- render, per frame
\* Lines 349-351: the rotation angle after the frame's increment.
NextRotationAngle(angle, auto) == IF auto THEN angle + RotationStep ELSE angle

\* Line 352: the global rotationMatrix after the frame.
FrameRotation(oldRotation, angle, auto) ==
    IF auto THEN rotateY(Identity, angle) ELSE oldRotation

\* Lines 353 and 355: finalModelViewMatrix.
FinalModelViewReversed(mv, rotation, auto) == IF auto THEN multiply(rotation, mv) ELSE mv

FinalModelView(mv, rotation, auto) == IF auto THEN multiply(mv, rotation) ELSE mv

\* Lines 359-360: the normal matrix, recomputed from finalModelViewMatrix.
FrameNormalMatrixStale(oldNormal, final) == oldNormal

FrameNormalMatrix(oldNormal, final) == transpose(invert(oldNormal, final))

\* Lines 370-378: the draw calls of one frame, <<mode, first, count>> each.
DrawCallsPerFloat(wireframe, length) ==
    IF wireframe
    THEN [i \in 1..(length \div 9) |-> <<"LINE_LOOP", (i - 1) * 9, 3>>]
    ELSE << <<"TRIANGLES", 0, length \div 3>> >>

DrawCalls(wireframe, length) ==
    IF wireframe
    THEN [i \in 1..(length \div 9) |-> <<"LINE_LOOP", (i - 1) * 3, 3>>]
    ELSE << <<"TRIANGLES", 0, length \div 3>> >>

\* Line 381: requestAnimationFrame(render) adds one callback to the queue.
ScheduleTwice(pending) == pending + 2

Schedule(pending) == pending + 1

\* ------------------------------------------------------------------ state
VARIABLES
    radius, theta, phi,            \* camera parameters (126-128)
    isAnimating, isWireframe, autoRotate, rotationAngle,   \* 129-132
    lightIntensity,                \* 261
    currentSubdivisionLevel,       \* implicit global, created by the slider handler (302)
    modelViewMatrix, normalMatrix, rotationMatrix,         \* 121, 123, 134
    vertices, normals,             \* the global arrays (146-147)
    sphereData,                    \* the object a stepwise generateSphere call returned
    positionBufferData, normalBufferData,   \* contents of the two GL buffers
    attribs,                       \* buffer bound to each vertex attribute
    uniforms,                      \* uniform values of the shader program
    drawCalls,                     \* draw calls issued since the last gl.clear
    pendingFrames,                 \* callbacks registered with requestAnimationFrame
    pc,                            \* "fresh", "script" (before line 389) or "loop"
    genPc, genI, genLevel,         \* a generateSphere call in progress: position, i, argument
    frames, autoFrames,            \* history: frames executed, and those with autoRotate on
    events,                        \* history: UI events handled
    calls                          \* history: stepwise generateSphere calls made

camera == <<radius, theta, phi>>
flags == <<isAnimating, isWireframe, autoRotate>>
matrices == <<modelViewMatrix, normalMatrix, rotationMatrix>>
mesh == <<vertices, normals, sphereData>>
buffers == <<positionBufferData, normalBufferData>>
backend == <<attribs, uniforms, drawCalls>>
gen == <<genPc, genI, genLevel>>
history == <<frames, autoFrames, events, calls>>

vars == <<camera, flags, rotationAngle, lightIntensity, currentSubdivisionLevel, matrices,
          mesh, buffers, backend, pendingFrames, pc, gen, history>>

Undefined == "undefined"

\* The globals as lines 121-147 and 261 set them, before any generateSphere call.
Fresh ==
    /\ radius = 5 * MatScale
    /\ theta = 0
    /\ phi = HalfPi
    /\ isAnimating = TRUE
    /\ isWireframe = FALSE
    /\ autoRotate = TRUE
    /\ rotationAngle = 0
    /\ lightIntensity = 800
    /\ currentSubdivisionLevel = Undefined
    /\ modelViewMatrix = Identity
    /\ normalMatrix = Identity
    /\ rotationMatrix = Identity
    /\ attribs = [aPosition |-> Undefined, aNormal |-> Undefined]
    /\ uniforms = [uModelViewMatrix |-> Undefined, uProjectionMatrix |-> Undefined,
                   uNormalMatrix |-> Undefined, uLightIntensity |-> Undefined]
    /\ drawCalls = <<>>
    /\ pendingFrames = 0
    /\ genPc = "idle"
    /\ genI = 0
    /\ frames = 0
    /\ autoFrames = 0
    /\ events = 0
    /\ calls = 0

\* ------------------------------------------------- generateSphere, stepwise
\* The state before line 239: no mesh, no buffers.
InitGen ==
    /\ Fresh
    /\ pc = "fresh"
    /\ vertices = <<>>
    /\ normals = <<>>
    /\ sphereData = Undefined
    /\ positionBufferData = Undefined
    /\ normalBufferData = Undefined
    /\ genLevel = Undefined

\* A call generateSphere(level): lines 209-212.
GenCall(level) ==
    /\ genPc = "idle"
    /\ calls < MaxCalls
    /\ calls' = calls + 1
    /\ vertices' = ClearedArray(vertices)
    /\ normals' = ClearedArray(normals)
    /\ genI' = 0
    /\ genLevel' = level
    /\ genPc' = "loop"
    /\ UNCHANGED <<camera, flags, rotationAngle, lightIntensity, currentSubdivisionLevel,
                   matrices, sphereData, buffers, backend, pendingFrames, pc, frames,
                   autoFrames, events>>

\* One iteration of the loop (215-233).
GenStep ==
    /\ genPc = "loop"
    /\ LoopContinues(genI)
    /\ LET m == SeedStep([vertices |-> vertices, normals |-> normals], genI, genLevel)
       IN /\ vertices' = m.vertices
          /\ normals' = m.normals
    /\ genI' = genI + 3
    /\ UNCHANGED <<camera, flags, rotationAngle, lightIntensity, currentSubdivisionLevel,
                   matrices, sphereData, buffers, backend, pendingFrames, pc, genPc,
                   genLevel, history>>

\* The loop's exit and the return (235).
GenReturn ==
    /\ genPc = "loop"
    /\ ~LoopContinues(genI)
    /\ sphereData' = [vertices |-> Float32Array(vertices), normals |-> Float32Array(normals)]
    /\ genPc' = "idle"
    /\ UNCHANGED <<camera, flags, rotationAngle, lightIntensity, currentSubdivisionLevel,
                   matrices, vertices, normals, buffers, backend, pendingFrames, pc,
                   genI, genLevel, history>>

NextGen ==
    \/ \E level \in 0..MaxLevel : GenCall(level)
    \/ GenStep
    \/ GenReturn

SpecGen == InitGen /\ [][NextGen]_vars

\* ------------------------------------------------------------ the program
\* The state after lines 1-386: the initial mesh built and uploaded (239-250),
\* render not yet called.
Init ==
    /\ Fresh
    /\ pc = "script"
    /\ \E g \in {generateSphere(<<>>, <<>>, InitialLevel)} :
          /\ vertices = g.vertices
          /\ normals = g.normals
          /\ sphereData = Undefined
          /\ genLevel = Undefined
          /\ positionBufferData = g.sphereData.vertices
          /\ normalBufferData = g.sphereData.normals

\* The body of render() from line 331 on, isAnimating being true; the caller
\* sets pendingFrames.
Frame ==
    /\ \E cam \in {updateCameraPosition(radius, theta, phi, normalMatrix)} :
       \E angle \in {NextRotationAngle(rotationAngle, autoRotate)} :
       \E rotation \in {FrameRotation(rotationMatrix, angle, autoRotate)} :
       \E final \in {FinalModelView(cam.modelViewMatrix, rotation, autoRotate)} :
       \E normal \in {FrameNormalMatrix(cam.normalMatrix, final)} :
          /\ modelViewMatrix' = cam.modelViewMatrix
          /\ rotationAngle' = angle
          /\ rotationMatrix' = rotation
          /\ normalMatrix' = normal
          /\ uniforms' = [uModelViewMatrix |-> final,
                          uProjectionMatrix |-> projectionMatrix,
                          uNormalMatrix |-> normal,
                          uLightIntensity |-> lightIntensity]
    /\ attribs' = [aPosition |-> "positionBuffer", aNormal |-> "normalBuffer"]
    /\ drawCalls' = DrawCalls(isWireframe, Len(vertices))
    /\ frames' = frames + 1
    /\ autoFrames' = IF autoRotate THEN autoFrames + 1 ELSE autoFrames
    /\ UNCHANGED <<camera, flags, lightIntensity, currentSubdivisionLevel, mesh, buffers, gen,
                   events, calls>>

\* render() returning at line 329.
NoFrame ==
    UNCHANGED <<camera, flags, rotationAngle, lightIntensity, currentSubdivisionLevel,
                matrices, mesh, buffers, backend, gen, history>>

\* Line 389: the script calls render() itself, and the event loop takes over.
ScriptRender ==
    /\ pc = "script"
    /\ pc' = "loop"
    /\ IF isAnimating
       THEN Frame /\ pendingFrames' = Schedule(pendingFrames)
       ELSE NoFrame /\ UNCHANGED pendingFrames

\* The browser runs a registered callback on a display refresh.
RenderFrame ==
    /\ pc = "loop"
    /\ pendingFrames > 0
    /\ frames < MaxFrames
    /\ UNCHANGED pc
    /\ IF isAnimating
       THEN Frame /\ pendingFrames' = Schedule(pendingFrames - 1)
       ELSE NoFrame /\ pendingFrames' = pendingFrames - 1

\* ------------------------------------------------------------ UI handlers
\* Slider values arrive as strings of the slider's grid; parseFloat and
\* parseInt give the number, here already on the model's grids.
RadiusValues == {2 * MatScale}
ThetaValues == {15700}
PhiValues == {0}
LightValues == {MatScale}
SliderLevels == {MinLevel, MinLevel + 1}

\* A handler runs once the script has ended; the model handles MaxEvents events.
UIEvent ==
    /\ events < MaxEvents
    /\ events' = events + 1

RadiusInput(value) ==
    /\ pc = "loop"
    /\ UIEvent
    /\ radius' = value
    /\ UNCHANGED <<theta, phi, flags, rotationAngle, lightIntensity, currentSubdivisionLevel,
                   matrices, mesh, buffers, backend, pendingFrames, pc, gen, frames, autoFrames, calls>>

ThetaInput(value) ==
    /\ pc = "loop"
    /\ UIEvent
    /\ theta' = value
    /\ UNCHANGED <<radius, phi, flags, rotationAngle, lightIntensity, currentSubdivisionLevel,
                   matrices, mesh, buffers, backend, pendingFrames, pc, gen, frames, autoFrames, calls>>

PhiInput(value) ==
    /\ pc = "loop"
    /\ UIEvent
    /\ phi' = value
    /\ UNCHANGED <<radius, theta, flags, rotationAngle, lightIntensity,
                   currentSubdivisionLevel, matrices, mesh, buffers, backend, pendingFrames,
                   pc, gen, frames, autoFrames, calls>>

\* Lines 301-311, run to completion.
SubdivisionInputStaleNormals(value) ==
    /\ pc = "loop"
    /\ UIEvent
    /\ currentSubdivisionLevel' = value
    /\ \E g \in {generateSphere(vertices, normals, value)} :
          /\ vertices' = g.vertices
          /\ normals' = g.normals
          /\ positionBufferData' = g.sphereData.vertices
          /\ normalBufferData' = normalBufferData
    /\ UNCHANGED <<camera, flags, rotationAngle, lightIntensity, matrices, sphereData,
                   backend, pendingFrames, pc, gen, frames, autoFrames, calls>>

SubdivisionInput(value) ==
    /\ pc = "loop"
    /\ UIEvent
    /\ currentSubdivisionLevel' = value
    /\ \E g \in {generateSphere(vertices, normals, value)} :
          /\ vertices' = g.vertices
          /\ normals' = g.normals
          /\ positionBufferData' = g.sphereData.vertices
          /\ normalBufferData' = g.sphereData.normals
    /\ UNCHANGED <<camera, flags, rotationAngle, lightIntensity, matrices, sphereData,
                   backend, pendingFrames, pc, gen, frames, autoFrames, calls>>

LightInput(value) ==
    /\ pc = "loop"
    /\ UIEvent
    /\ lightIntensity' = value
    /\ UNCHANGED <<camera, flags, rotationAngle, currentSubdivisionLevel, matrices, mesh,
                   buffers, backend, pendingFrames, pc, gen, frames, autoFrames, calls>>

ToggleWireframe ==
    /\ pc = "loop"
    /\ UIEvent
    /\ isWireframe' = ~isWireframe
    /\ UNCHANGED <<camera, isAnimating, autoRotate, rotationAngle, lightIntensity,
                   currentSubdivisionLevel, matrices, mesh, buffers, backend, pendingFrames,
                   pc, gen, frames, autoFrames, calls>>

ToggleRotationResets ==
    /\ pc = "loop"
    /\ UIEvent
    /\ autoRotate' = ~autoRotate
    /\ rotationAngle' = 0
    /\ UNCHANGED <<camera, isAnimating, isWireframe, lightIntensity,
                   currentSubdivisionLevel, matrices, mesh, buffers, backend, pendingFrames,
                   pc, gen, frames, autoFrames, calls>>

ToggleRotation ==
    /\ pc = "loop"
    /\ UIEvent
    /\ autoRotate' = ~autoRotate
    /\ UNCHANGED <<camera, isAnimating, isWireframe, rotationAngle, lightIntensity,
                   currentSubdivisionLevel, matrices, mesh, buffers, backend, pendingFrames,
                   pc, gen, frames, autoFrames, calls>>

Next ==
    \/ ScriptRender
    \/ RenderFrame
    \/ \E value \in RadiusValues : RadiusInput(value)
    \/ \E value \in ThetaValues : ThetaInput(value)
    \/ \E value \in PhiValues : PhiInput(value)
    \/ \E value \in SliderLevels : SubdivisionInput(value)
    \/ \E value \in LightValues : LightInput(value)
    \/ ToggleWireframe
    \/ ToggleRotation

Spec == Init /\ [][Next]_vars

\* The script runs to its end, and the browser runs a registered frame callback
\* on the next display refresh.  ScriptTick and FrameTick are the steps of
\* ScriptRender and of RenderFrame (with isAnimating true) told by pc and frames
\* alone: under [][Next]_vars they are enabled, and taken, exactly when those are.
ScriptTick == pc = "script" /\ pc' = "loop"

FrameTick ==
    /\ pc = "loop"
    /\ pendingFrames > 0
    /\ frames < MaxFrames
    /\ isAnimating
    /\ frames' = frames + 1

SpecLive == Spec /\ WF_pc(ScriptTick) /\ WF_frames(FrameTick)

\* ------------------------------------------- updateCameraPosition, alone
\* Camera states of the documented ranges: the ends of each slider, the
\* initial values, and the grid points nearest to theta = phi = pi / 2.
CameraRadii == {2 * MatScale, 5 * MatScale, 10 * MatScale}
CameraThetas == {0, 15700, 31400, 47100, 62800}
CameraPhis == {0, 15700, HalfPi, 31400}

InitCam ==
    /\ Fresh
    /\ pc = "camera"
    /\ vertices = <<>>
    /\ normals = <<>>
    /\ sphereData = Undefined
    /\ positionBufferData = Undefined
    /\ normalBufferData = Undefined
    /\ genLevel = Undefined

\* The three camera globals are set.
CameraInput(r, th, ph) ==
    /\ pc \in {"camera", "camera-done"}
    /\ radius' = r
    /\ theta' = th
    /\ phi' = ph
    /\ pc' = "camera"
    /\ UNCHANGED <<flags, rotationAngle, lightIntensity, currentSubdivisionLevel, matrices,
                   mesh, buffers, backend, pendingFrames, gen, history>>

\* A call updateCameraPosition() (265-282).
CameraUpdate ==
    /\ pc = "camera"
    /\ LET cam == updateCameraPosition(radius, theta, phi, normalMatrix)
       IN /\ modelViewMatrix' = cam.modelViewMatrix
          /\ normalMatrix' = cam.normalMatrix
    /\ pc' = "camera-done"
    /\ UNCHANGED <<camera, flags, rotationAngle, lightIntensity, currentSubdivisionLevel,
                   rotationMatrix, mesh, buffers, backend, pendingFrames, gen, history>>

NextCam ==
    \/ \E r \in CameraRadii, th \in CameraThetas, ph \in CameraPhis : CameraInput(r, th, ph)
    \/ CameraUpdate

SpecCam == InitCam /\ [][NextCam]_vars

\* ================================================================ claims
\* Triangle t (0-based) of a flattened array: its three Vec3, in order.
Vec3At(arr, k) == << At(arr, 3 * k), At(arr, 3 * k + 1), At(arr, 3 * k + 2) >>
TriangleAt(arr, t) == << Vec3At(arr, 3 * t), Vec3At(arr, 3 * t + 1), Vec3At(arr, 3 * t + 2) >>

\* A stepwise generateSphere call has returned.
Returned == genPc = "idle" /\ genI > 0

\* C1: for every level S in 0..5, generateSphere(S) leaves 20 * 4^S leaf
\* triangles: the returned position array holds 9 floats per triangle
\* (3 * 20 * 4^S vertices), the returned normal array one normal per vertex, and
\* for S = 0 the triangles are the 20 seed triangles in index order.
C1_TriangleCount ==
    Returned =>
        /\ Len(sphereData.vertices) = 9 * 20 * (4 ^ genLevel)
        /\ Len(sphereData.normals) = Len(sphereData.vertices)
        /\ Len(vertices) = Len(sphereData.vertices)
        /\ Len(normals) = Len(sphereData.normals)
        /\ genLevel = 0 =>
              \A t \in 0..19 :
                  TriangleAt(sphereData.vertices, t)
                      = << IcosaVertex(3 * t), IcosaVertex(3 * t + 1), IcosaVertex(3 * t + 2) >>

C1_Witness ==
    /\ Returned
    /\ genLevel = InitialLevel
    /\ Len(sphereData.vertices) = 11520

\* C5: a generation pass fully replaces the mesh: after any sequence of
\* generateSphere calls the global arrays and the returned arrays are exactly
\* those of a single generateSphere call, with the last level, on a fresh
\* program (empty arrays); nothing of an earlier pass is carried over.
C5_PassReplacesMesh ==
    Returned =>
        LET single == generateSphere(<<>>, <<>>, genLevel)
        IN /\ vertices = single.vertices
           /\ normals = single.normals
           /\ sphereData = single.sphereData

C5_Witness ==
    /\ Returned
    /\ calls = 2
    /\ genLevel = 1
    /\ Len(vertices) = 720

\* The sum of a triangle's three vertices: three times its centroid.
CentroidSum(tri) ==
    << tri[1][1] + tri[2][1] + tri[3][1],
       tri[1][2] + tri[2][2] + tri[3][2],
       tri[1][3] + tri[2][3] + tri[3][3] >>

DotProduct(u, v) == u[1] * v[1] + u[2] * v[2] + u[3] * v[3]

\* C8: for every leaf triangle generateSphere produces, at every level, the
\* stored face normal (each of its three copies) points away from the sphere
\* centre: dot(normal, centroid) > 0.
C8_OutwardNormals ==
    Returned =>
        \A t \in 0..(Len(vertices) \div 9 - 1) :
            LET c == CentroidSum(TriangleAt(vertices, t))
            IN \A j \in 0..2 : DotProduct(Vec3At(normals, 3 * t + j), c) > 0

C8_Witness ==
    /\ Returned
    /\ genLevel = InitialLevel
    /\ DotProduct(Vec3At(normals, 3 * 1279), CentroidSum(TriangleAt(vertices, 1279))) > 0

\* The k-th child (1..4) of a triangle, as the specification orders them:
\* (v1,m12,m31), (v2,m23,m12), (v3,m31,m23), (m12,m23,m31).
ExpectedChild(tri, k) ==
    LET m12 == Midpoint(tri[1], tri[2])
        m23 == Midpoint(tri[2], tri[3])
        m31 == Midpoint(tri[3], tri[1])
    IN CASE k = 1 -> <<tri[1], m12, m31>>
         [] k = 2 -> <<tri[2], m23, m12>>
         [] k = 3 -> <<tri[3], m31, m23>>
         [] k = 4 -> <<m12, m23, m31>>

\* The leaf number k (0-based, in emission order) among the 4^depth leaves of tri.
RECURSIVE ExpectedLeaf(_, _, _)
ExpectedLeaf(tri, depth, k) ==
    IF depth = 0
    THEN tri
    ELSE ExpectedLeaf(ExpectedChild(tri, k \div (4 ^ (depth - 1)) + 1), depth - 1,
                      k % (4 ^ (depth - 1)))

\* The orientation of a triangle seen from the centre: the sign of
\* ((v2 - v1) x (v3 - v1)) . (v1 + v2 + v3), taken on the normalized cross product.
Orientation(tri) ==
    LET d == DotProduct(
                 normalize(<<
                     GMul(tri[2][2] - tri[1][2], tri[3][3] - tri[1][3])
                         - GMul(tri[2][3] - tri[1][3], tri[3][2] - tri[1][2]),
                     GMul(tri[2][3] - tri[1][3], tri[3][1] - tri[1][1])
                         - GMul(tri[2][1] - tri[1][1], tri[3][3] - tri[1][3]),
                     GMul(tri[2][1] - tri[1][1], tri[3][2] - tri[1][2])
                         - GMul(tri[2][2] - tri[1][2], tri[3][1] - tri[1][1]) >>),
                 CentroidSum(tri))
    IN IF d > 0 THEN 1 ELSE IF d < 0 THEN -1 ELSE 0

SeedTriangle(s) == << IcosaVertex(3 * s), IcosaVertex(3 * s + 1), IcosaVertex(3 * s + 2) >>

\* C9: subdivideTriangle at depth 0 emits its input triangle unchanged; at
\* depth > 0 it emits the leaves of (v1,m12,m31), (v2,m23,m12), (v3,m31,m23),
\* (m12,m23,m31) in this order, each at depth - 1, with re-normalized midpoints;
\* every leaf has the orientation of its seed triangle; generateSphere
\* concatenates the results of the 20 seed triangles in index order.
C9_EmissionOrder ==
    Returned =>
        \A s \in 0..19 :
            \A k \in 0..(4 ^ genLevel - 1) :
                LET leaf == TriangleAt(vertices, s * (4 ^ genLevel) + k)
                IN /\ leaf = ExpectedLeaf(SeedTriangle(s), genLevel, k)
                   /\ Orientation(leaf) = Orientation(SeedTriangle(s))

C9_Witness ==
    /\ Returned
    /\ genLevel = 2
    /\ TriangleAt(vertices, 16 + 6)
           = ExpectedChild(ExpectedChild(SeedTriangle(1), 2), 3)

\* A vector collinear with the up vector (0, 1, 0).
CollinearWithUp(v) == v[1] = 0 /\ v[3] = 0

\* The rows x, y, z of the look-at basis held in a view matrix.
BasisX(m) == << At(m, 0), At(m, 4), At(m, 8) >>
BasisY(m) == << At(m, 1), At(m, 5), At(m, 9) >>
BasisZ(m) == << At(m, 2), At(m, 6), At(m, 10) >>

IsFrame == frames' = frames + 1

\* The view of the camera globals: the baseView of a frame.
BaseView == lookAt(Eye(radius, theta, phi), Up)

\* C2: in every executed frame, with autoRotate on rotationAngle advances by
\* exactly one step before use and the uploaded view is baseView composed with a
\* Y-rotation by the advanced angle; with autoRotate off rotationAngle stays and
\* the uploaded view is baseView.  No other step changes rotationAngle, so it
\* always is the step times the number of frames executed with autoRotate on.
C2_RotationPerFrame ==
    [][ /\ IsFrame /\ autoRotate =>
            /\ rotationAngle' = rotationAngle + RotationStep
            /\ uniforms'.uModelViewMatrix
                   = multiply(BaseView, rotateY(Identity, rotationAngle + RotationStep))
        /\ IsFrame /\ ~autoRotate =>
            /\ rotationAngle' = rotationAngle
            /\ uniforms'.uModelViewMatrix = BaseView
        /\ ~IsFrame => rotationAngle' = rotationAngle
        /\ rotationAngle' = RotationStep * autoFrames' ]_vars

C2_Witness ==
    /\ frames = 3
    /\ autoFrames = 2
    /\ autoRotate
    /\ rotationAngle = 2 * RotationStep
    /\ uniforms.uModelViewMatrix = multiply(modelViewMatrix, rotateY(Identity, 2 * RotationStep))
    /\ uniforms.uModelViewMatrix # modelViewMatrix

\* C3: in every executed frame, with T the number of triangles of the current
\* mesh: wireframe off, exactly one triangle-list call over all 3 * T vertices;
\* wireframe on, exactly T line-loop calls and no triangle-list call, the i-th
\* over the 3 vertices from 3 * i; both read the same two buffers.
C3_DrawCalls ==
    [][ IsFrame =>
            LET T == Len(vertices) \div 9
            IN /\ attribs' = [aPosition |-> "positionBuffer", aNormal |-> "normalBuffer"]
               /\ ~isWireframe => drawCalls' = << <<"TRIANGLES", 0, 3 * T>> >>
               /\ isWireframe =>
                      /\ Len(drawCalls') = T
                      /\ \A i \in 0..(T - 1) : At(drawCalls', i) = <<"LINE_LOOP", 3 * i, 3>> ]_vars

C3_Witness ==
    /\ frames >= 2
    /\ isWireframe
    /\ Len(vertices) = 720
    /\ Len(drawCalls) = 80
    /\ At(drawCalls, 79) = <<"LINE_LOOP", 237, 3>>

\* C4: the frame loop never ends while isAnimating is true: every render that
\* finds it true executes the frame and registers exactly one callback, so
\* exactly one callback is pending between frames and a further frame is always
\* eventually executed (up to the model's MaxFrames); a render that finds it
\* false neither draws nor schedules; no step clears the flag.
C4_LoopForever ==
    /\ [](pendingFrames <= 1)
    /\ [](pc = "loop" => isAnimating /\ pendingFrames = 1)
    /\ [][ /\ isAnimating' = isAnimating
           /\ IsFrame => isAnimating /\ pendingFrames' = 1
           /\ ~isAnimating => drawCalls' = drawCalls /\ pendingFrames' <= pendingFrames ]_vars
    /\ \A n \in 0..(MaxFrames - 1) : (frames = n) ~> (frames = n + 1)

C4_Witness ==
    /\ frames = MaxFrames
    /\ pendingFrames = 1
    /\ isAnimating
    /\ pc = "loop"

\* C6: a frame leaves radius, theta, phi, the subdivision level, the mesh
\* arrays, lightIntensity, isWireframe, autoRotate and isAnimating unchanged;
\* of the scene state it writes only rotationAngle.  No UI handler writes
\* rotationAngle.
C6_FrameEffect ==
    [][ /\ IsFrame =>
               UNCHANGED <<radius, theta, phi, currentSubdivisionLevel, vertices, normals,
                           lightIntensity, isWireframe, autoRotate, isAnimating>>
        /\ ~IsFrame => rotationAngle' = rotationAngle ]_vars

C6_Witness ==
    /\ frames = 3
    /\ events = 2
    /\ rotationAngle = 3 * RotationStep
    /\ radius = 2 * MatScale
    /\ Len(vertices) = 720

\* C10: in every executed frame, autoRotate on or off, the uploaded normal
\* matrix is the inverse-transpose of the model-view matrix uploaded in the same
\* frame; when a rotation is applied it is not the normal matrix
\* updateCameraPosition derived from baseView.
C10_NormalFromFinalView ==
    [][ IsFrame =>
            /\ Det(uniforms'.uModelViewMatrix) # 0
            /\ uniforms'.uNormalMatrix
                   = transpose(invert(Identity, uniforms'.uModelViewMatrix))
            /\ normalMatrix' = uniforms'.uNormalMatrix
            /\ autoRotate =>
                   uniforms'.uNormalMatrix
                       # updateCameraPosition(radius, theta, phi, normalMatrix).normalMatrix ]_vars

C10_Witness ==
    /\ frames >= 2
    /\ autoRotate
    /\ phi = 0
    /\ modelViewMatrix = lookAt(Eye(radius, theta, 0), Up)
    /\ uniforms.uModelViewMatrix # modelViewMatrix
    /\ uniforms.uNormalMatrix = transpose(invert(Identity, uniforms.uModelViewMatrix))
    /\ uniforms.uNormalMatrix # transpose(invert(Identity, modelViewMatrix))

\* The vertices a frame's draw calls address: the union of the ranges
\* first..first + count - 1 of its calls.
AddressedVertices(dc) ==
    UNION { dc[i][2]..(dc[i][2] + dc[i][3] - 1) : i \in 1..Len(dc) }

\* The vertices a buffer of 3 floats per vertex holds.
BufferVertices(data) == 0..((Len(data) \div 3) - 1)

\* C11: after any interleaving of subdivision-slider events and frames, both
\* uploaded buffers are those of the current global mesh arrays (never a mesh
\* regenerated but not uploaded, never buffers of two levels), and the draw
\* calls of every frame address exactly the vertices the position buffer and
\* the normal buffer hold, the frame itself changing neither mesh nor buffers.
C11_DrawRangeMatchesBuffers ==
    /\ [](/\ positionBufferData = Float32Array(vertices)
          /\ normalBufferData = Float32Array(normals)
          /\ Len(normalBufferData) = Len(positionBufferData)
          /\ Len(positionBufferData) % 9 = 0)
    /\ [][ IsFrame =>
            /\ AddressedVertices(drawCalls') = BufferVertices(positionBufferData')
            /\ AddressedVertices(drawCalls') = BufferVertices(normalBufferData')
            /\ UNCHANGED <<mesh, buffers>> ]_vars

C11_Witness ==
    /\ frames >= 2
    /\ events = 2
    /\ Len(vertices) = 2880
    /\ Len(positionBufferData) = 2880
    /\ Len(normalBufferData) = 2880
    /\ drawCalls = << <<"TRIANGLES", 0, 960>> >>

====
